---------------------------- MODULE Spec2Model ----------------------------
(***************************************************************************)
(* Model of the ANOMIE catalog/cart backend (src/main.py): the two         *)
(* collections of the document store, the HTTP handlers that insert into   *)
(* and read from them, and the response each request gets.                 *)
(*                                                                         *)
(* Python values are modelled as follows.                                  *)
(*   Optional[T]   None is <<>>, a present value x is <<x>>                *)
(*   ObjectId      the store's native key: a natural number                *)
(*   id strings    a record [hex, key, upper, text]: a 24 hex digit string *)
(*                 spelling key `key' in lower or upper case, or (hex      *)
(*                 FALSE) the plain text `text'                            *)
(*   document      a record; the store's key is its field _id              *)
(***************************************************************************)
EXTENDS Integers, Sequences, FiniteSets, TLC

VARIABLES
    product,    \* the "product" collection, in insertion (natural) order
    cartitem,   \* the "cartitem" collection, in insertion (natural) order
    req,        \* the last request handled
    resp,       \* the response it got
    calls,      \* the store operations the last request issued, in order
    stats       \* how many requests of each writing kind were handled

vars == <<product, cartitem, req, resp, calls, stats>>

---------------------------------------------------------------------------
(* Bounds of the model. *)

\* Writing requests (create, add to cart, seed) handled under Spec.
MaxWrites == 3
\* Writing requests handled under FaultSpec.
FaultMaxWrites == 2
\* Seed requests handled under CatalogSpec.
CatalogMaxSeeds == 5
\* Product creations handled under CatalogSpec.
CatalogMaxCreates == 1

---------------------------------------------------------------------------
(* Python values. *)

None == <<>>
Some(x) == <<x>>

\* The 24 hex digit string spelling key k, lower case unless up.
HexStr(k, up) == [hex |-> TRUE, key |-> k, upper |-> up, text |-> ""]
\* A string that is no 24 hex digit string.
Text(t) == [hex |-> FALSE, key |-> 0, upper |-> FALSE, text |-> t]

\* str(ObjectId): bson prints the key in lower case hex.
StrOfObjectId(k) == HexStr(k, FALSE)

\* bson.ObjectId.is_valid: 24 hex digits, in either case.
IsValidObjectId(s) == s.hex

\* ObjectId(s) of a valid s: hex digits parse the same in either case.
ObjectId(s) == s.key

\* Python truthiness of an Optional[str] holding a plain string: None and ""
\* are falsy.
Truthy(o) == o # None /\ o[1] # ""

\* Faulty variant of TruthyId: tests presence (`"product_id" in d') where
\* the code tests truthiness.
TruthyIdPresent(o) == o # None

\* Python truthiness of an Optional[str] holding an id string.
TruthyId(o) == o # None /\ o[1] # Text("")

\* The first n elements of s (all of s when it is shorter).
Take(s, n) == SubSeq(s, 1, IF n < Len(s) THEN n ELSE Len(s))

---------------------------------------------------------------------------
(* The document store adapter (database.py), as the specification describes
   it: find in natural order, which for a collection that only grows is
   insertion order. *)

\* A filter {field: value, ...} matches a document that has each field with
\* that value.
Matches(d, query) == \A f \in DOMAIN query : f \in DOMAIN d /\ d[f] = query[f]

\* get_documents(collection, filter, limit): the matching documents in the
\* collection's natural order, at most limit of them; limit None is no cap.
get_documents(coll, query, limit) ==
    LET found == SelectSeq(coll, LAMBDA d : Matches(d, query))
    IN  IF limit = None THEN found ELSE Take(found, limit[1])

\* The key the store generates for the next document of a collection.
NewKey(coll) == Len(coll) + 1

\* create_document(collection, payload): the collection with the payload
\* stored under a fresh key; the call returns str of that key.
create_document(coll, data) == Append(coll, [_id |-> NewKey(coll)] @@ data)

\* db[collection].find({"_id": {"$in": keys}})
FindIn(coll, keys) == SelectSeq(coll, LAMBDA d : d._id \in keys)

---------------------------------------------------------------------------
(* Responses. *)

Ok(body) == [status |-> 200, body |-> body]
\* HTTPException(status_code=500, detail=str(e))
ServerError(detail) == [status |-> 500, body |-> detail]
\* The framework's answer to a request that fails validation.
Unprocessable == [status |-> 422, body |-> "field required"]

\* What a handler does: the collection it may write, as it leaves it, the
\* response, and the store operations it issued.
Outcome(coll, r, ops) == [coll |-> coll, resp |-> r, calls |-> ops]

---------------------------------------------------------------------------
(* POST /products *)

create_product(payload, ok) ==
    IF ok
    THEN Outcome(create_document(product, payload),
                 Ok([id |-> StrOfObjectId(NewKey(product))]),
                 <<"create_document product">>)
    ELSE Outcome(product, ServerError("store failure"),
                 <<"create_document product">>)

---------------------------------------------------------------------------
(* GET /products *)

\* limit: int = 50
DefaultLimit == 50

\* Faulty variant of ListQuery: the category filter is dropped.
ListQueryAll(category) == <<>>

\* query = {"category": category} if category else {}
ListQuery(category) == IF Truthy(category) THEN [category |-> category[1]] ELSE <<>>

\* d["id"] = str(d.get("_id")); d.pop("_id", None); ProductOut(**d)
ProductOut(d) ==
    [f \in (DOMAIN d \ {"_id"}) \cup {"id"} |->
        IF f = "id" THEN StrOfObjectId(d._id) ELSE d[f]]

\* Faulty variant of list_products: the cap is one short of the limit.
list_products_short(limit, category, ok) ==
    LET n    == IF limit = None THEN DefaultLimit ELSE limit[1]
        docs == get_documents(product, ListQuery(category), Some(n - 1))
    IN  IF ok
        THEN Outcome(product, Ok([i \in 1..Len(docs) |-> ProductOut(docs[i])]),
                     <<"get_documents product">>)
        ELSE Outcome(product, ServerError("store failure"), <<"get_documents product">>)

\* Faulty variant of list_products: the limit is not passed to the store.
list_products_unlimited(limit, category, ok) ==
    LET docs == get_documents(product, ListQuery(category), None)
    IN  IF ok
        THEN Outcome(product, Ok([i \in 1..Len(docs) |-> ProductOut(docs[i])]),
                     <<"get_documents product">>)
        ELSE Outcome(product, ServerError("store failure"), <<"get_documents product">>)

list_products(limit, category, ok) ==
    LET n    == IF limit = None THEN DefaultLimit ELSE limit[1]
        docs == get_documents(product, ListQuery(category), Some(n))
    IN  IF ok
        THEN Outcome(product, Ok([i \in 1..Len(docs) |-> ProductOut(docs[i])]),
                     <<"get_documents product">>)
        ELSE Outcome(product, ServerError("store failure"), <<"get_documents product">>)

---------------------------------------------------------------------------
(* POST /cart/items *)

add_to_cart(item, ok) ==
    IF ok
    THEN Outcome(create_document(cartitem, item),
                 Ok([id |-> StrOfObjectId(NewKey(cartitem))]),
                 <<"create_document cartitem">>)
    ELSE Outcome(cartitem, ServerError("store failure"),
                 <<"create_document cartitem">>)

---------------------------------------------------------------------------
(* GET /cart/items *)

\* Faulty variant of HydrateProduct: in_stock is always the default.
HydrateProductInStock(p) ==
    [ id          |-> StrOfObjectId(p._id),
      title       |-> p.title,
      description |-> p.description,
      price       |-> p.price,
      category    |-> p.category,
      image       |-> p.image,
      in_stock    |-> TRUE,
      sizes       |-> p.sizes ]

\* The ProductOut built field by field from a product document.
HydrateProduct(p) ==
    [ id          |-> StrOfObjectId(p._id),
      title       |-> p.title,
      description |-> p.description,
      price       |-> p.price,
      category    |-> p.category,
      image       |-> p.image,
      in_stock    |-> IF "in_stock" \in DOMAIN p THEN p.in_stock ELSE TRUE,
      sizes       |-> p.sizes ]

\* product_map: str of each fetched product's key to its ProductOut.
ProductMap(prod_docs) ==
    [s \in {StrOfObjectId(prod_docs[i]._id) : i \in 1..Len(prod_docs)} |->
        HydrateProduct(
            prod_docs[CHOOSE i \in 1..Len(prod_docs) :
                          /\ StrOfObjectId(prod_docs[i]._id) = s
                          /\ \A j \in 1..Len(prod_docs) :
                                StrOfObjectId(prod_docs[j]._id) = s => j <= i])]

\* dict.get: the value as an Optional.
MapGet(m, k) == IF k \in DOMAIN m THEN Some(m[k]) ELSE None

\* CartItemOut(**d, product=product) of one cart item document.
CartItemOut(d, product_map) ==
    [f \in (DOMAIN d \ {"_id"}) \cup {"id", "product"} |->
        CASE f = "id"      -> StrOfObjectId(d._id)
          [] f = "product" -> IF TruthyId(d.product_id)
                              THEN MapGet(product_map, d.product_id[1])
                              ELSE None
          [] OTHER         -> d[f]]

\* Faulty variant of get_cart_items: the cart_id filter is dropped and the
\* products are left out.
get_cart_items_all(cart_id, fail) ==
    LET docs == get_documents(cartitem, <<>>, None)
    IN  IF fail = 1
        THEN Outcome(cartitem, ServerError("store failure"), <<"get_documents cartitem">>)
        ELSE Outcome(cartitem, Ok([i \in 1..Len(docs) |-> CartItemOut(docs[i], <<>>)]),
                     <<"get_documents cartitem">>)

\* fail: which of the handler's store operations fails (0: none).
get_cart_items(cart_id, fail) ==
    LET docs     == get_documents(cartitem, [cart_id |-> cart_id], None)
        withPid  == SelectSeq(docs, LAMBDA d : TruthyId(d.product_id))
        find1    == <<"get_documents cartitem">>
        find2    == <<"get_documents cartitem", "find product">>
    IN  IF fail = 1
        THEN Outcome(cartitem, ServerError("store failure"), find1)
        ELSE IF \E i \in 1..Len(withPid) : ~IsValidObjectId(withPid[i].product_id[1])
        THEN Outcome(cartitem, ServerError("InvalidId"), find1)
        ELSE IF withPid = <<>>
        THEN Outcome(cartitem,
                     Ok([i \in 1..Len(docs) |-> CartItemOut(docs[i], <<>>)]), find1)
        ELSE IF fail = 2
        THEN Outcome(cartitem, ServerError("store failure"), find2)
        ELSE LET product_ids == {ObjectId(withPid[i].product_id[1]) : i \in 1..Len(withPid)}
                 product_map == ProductMap(FindIn(product, product_ids))
             IN  Outcome(cartitem,
                         Ok([i \in 1..Len(docs) |-> CartItemOut(docs[i], product_map)]), find2)

---------------------------------------------------------------------------
(* POST /seed *)

samples == <<
    [ title |-> "Cropped Technical Bomber",
      description |-> Some("Matte nylon shell, cropped length, two-way zip, tonal hardware."),
      price |-> 480,
      category |-> "outerwear",
      image |-> Some("https://images.unsplash.com/photo-1544025162-d76694265947?q=80&w=1600&auto=format&fit=crop"),
      in_stock |-> TRUE,
      sizes |-> Some(<<"S", "M", "L">>) ],
    [ title |-> "Wool Overcoat",
      description |-> Some("Double-faced wool, clean lapel, hidden placket, charcoal."),
      price |-> 780,
      category |-> "outerwear",
      image |-> Some("https://images.unsplash.com/photo-1516822003754-cca485356ecb?q=80&w=1600&auto=format&fit=crop"),
      in_stock |-> TRUE,
      sizes |-> Some(<<"M", "L", "XL">>) ],
    [ title |-> "Heavyweight Boxy Tee",
      description |-> Some("26oz cotton, dropped shoulder, bone."),
      price |-> 95,
      category |-> "tops",
      image |-> Some("https://images.unsplash.com/photo-1512436991641-6745cdb1723f?q=80&w=1600&auto=format&fit=crop"),
      in_stock |-> TRUE,
      sizes |-> Some(<<"S", "M", "L", "XL">>) ],
    [ title |-> "Knit Polo",
      description |-> Some("Mercerized knit, open collar, ink."),
      price |-> 140,
      category |-> "tops",
      image |-> Some("https://images.unsplash.com/photo-1520975940163-5a6f8f125e8b?q=80&w=1600&auto=format&fit=crop"),
      in_stock |-> TRUE,
      sizes |-> Some(<<"S", "M", "L">>) ],
    [ title |-> "Pleated Wide Trousers",
      description |-> Some("Single pleat, fluid drape, crease-resistant, black."),
      price |-> 260,
      category |-> "bottoms",
      image |-> Some("https://images.unsplash.com/photo-1503341455253-b2e723bb3dbb?q=80&w=1600&auto=format&fit=crop"),
      in_stock |-> TRUE,
      sizes |-> Some(<<"28", "30", "32", "34">>) ],
    [ title |-> "Raw Denim",
      description |-> Some("14oz selvedge, straight leg, indigo."),
      price |-> 220,
      category |-> "bottoms",
      image |-> Some("https://images.unsplash.com/photo-1503342394122-6b8499a3a540?q=80&w=1600&auto=format&fit=crop"),
      in_stock |-> TRUE,
      sizes |-> Some(<<"28", "30", "32", "34", "36">>) ],
    [ title |-> "Leather Derby",
      description |-> Some("Full-grain calfskin, stacked heel, black."),
      price |-> 420,
      category |-> "footwear",
      image |-> Some("https://images.unsplash.com/photo-1519741497674-611481863552?q=80&w=1600&auto=format&fit=crop"),
      in_stock |-> TRUE,
      sizes |-> Some(<<"40", "41", "42", "43", "44">>) ],
    [ title |-> "Tech Runner",
      description |-> Some("Ripstop and suede, Vibram sole, grey."),
      price |-> 360,
      category |-> "footwear",
      image |-> Some("https://images.unsplash.com/photo-1539185441755-769473a23570?q=80&w=1600&auto=format&fit=crop"),
      in_stock |-> TRUE,
      sizes |-> Some(<<"40", "41", "42", "43">>) ],
    [ title |-> "Calfskin Belt",
      description |-> Some("Polished edge, matte buckle, black."),
      price |-> 160,
      category |-> "accessories",
      image |-> Some("https://images.unsplash.com/photo-1520975661595-6453be3f7070?q=80&w=1600&auto=format&fit=crop"),
      in_stock |-> TRUE,
      sizes |-> None ],
    [ title |-> "Ribbed Beanie",
      description |-> Some("Italian wool, onyx."),
      price |-> 80,
      category |-> "accessories",
      image |-> Some("https://images.unsplash.com/photo-1520975588854-6cdb91f1a6cf?q=80&w=1600&auto=format&fit=crop"),
      in_stock |-> TRUE,
      sizes |-> None ]
>>

\* The loop `for s in samples: inserted.append(create_document(...))' run for
\* the first n samples.
RECURSIVE SeedInserts(_, _)
SeedInserts(coll, n) ==
    IF n = 0 THEN coll
    ELSE create_document(SeedInserts(coll, n - 1), samples[n])

\* Faulty variant of seed_products: a store that holds products is not
\* seeded again.
seed_products_once(failAt) ==
    LET n        == IF product # <<>> THEN 0
                    ELSE IF failAt = 0 THEN Len(samples) ELSE failAt - 1
        ops      == [i \in 1..(IF failAt = 0 THEN n ELSE failAt) |->
                        "create_document product"]
        inserted == [i \in 1..n |-> StrOfObjectId(Len(product) + i)]
    IN  IF failAt = 0
        THEN Outcome(SeedInserts(product, n),
                     Ok([inserted |-> inserted, count |-> Len(inserted)]), ops)
        ELSE Outcome(SeedInserts(product, n), ServerError("store failure"), ops)

\* Faulty variant of seed_products: the collection is emptied before the
\* samples are inserted.
seed_products_reset(failAt) ==
    LET n        == IF failAt = 0 THEN Len(samples) ELSE failAt - 1
        ops      == [i \in 1..(IF failAt = 0 THEN Len(samples) ELSE failAt) |->
                        "create_document product"]
        inserted == [i \in 1..n |-> StrOfObjectId(i)]
    IN  IF failAt = 0
        THEN Outcome(SeedInserts(<<>>, n),
                     Ok([inserted |-> inserted, count |-> Len(inserted)]), ops)
        ELSE Outcome(SeedInserts(<<>>, n), ServerError("store failure"), ops)

\* Faulty variant of seed_products: a failed seed undoes its inserts.
seed_products_rollback(failAt) ==
    LET ops      == [i \in 1..(IF failAt = 0 THEN Len(samples) ELSE failAt) |->
                        "create_document product"]
        inserted == [i \in 1..Len(samples) |-> StrOfObjectId(Len(product) + i)]
    IN  IF failAt = 0
        THEN Outcome(SeedInserts(product, Len(samples)),
                     Ok([inserted |-> inserted, count |-> Len(inserted)]), ops)
        ELSE Outcome(product, ServerError("store failure"), ops)

\* failAt: which of the inserts fails (0: none).
seed_products(failAt) ==
    LET n        == IF failAt = 0 THEN Len(samples) ELSE failAt - 1
        ops      == [i \in 1..(IF failAt = 0 THEN Len(samples) ELSE failAt) |->
                        "create_document product"]
        inserted == [i \in 1..n |-> StrOfObjectId(Len(product) + i)]
    IN  IF failAt = 0
        THEN Outcome(SeedInserts(product, n),
                     Ok([inserted |-> inserted, count |-> Len(inserted)]), ops)
        ELSE Outcome(SeedInserts(product, n), ServerError("store failure"), ops)

---------------------------------------------------------------------------
(* GET /, GET /schema, GET /test *)

read_root == Ok([brand |-> "ANOMIE", sub |-> "STANDARD DEVIATION"])

get_schema_info == Ok([schemas |-> <<"user", "product", "cartitem">>])

\* db.list_collection_names(): a collection exists once a document was
\* inserted into it.
CollectionNames ==
    (IF product = <<>> THEN <<>> ELSE <<"product">>) \o
    (IF cartitem = <<>> THEN <<>> ELSE <<"cartitem">>)

\* db: "none" (no handle), "error" (the handle's call raises), "up";
\* url, name: whether DATABASE_URL and DATABASE_NAME are set.
test_database(db, url, name) ==
    Outcome(product,
        Ok([ backend           |-> "Running",
             database          |-> CASE db = "none"  -> "Not Available"
                                     [] db = "error" -> "Connected but Error"
                                     [] OTHER        -> "Connected & Working",
             database_url      |-> IF url THEN "Set" ELSE "Not Set",
             database_name     |-> IF name THEN "Set" ELSE "Not Set",
             connection_status |-> IF db = "none" THEN "Not Connected" ELSE "Connected",
             collections       |-> IF db = "up" THEN Take(CollectionNames, 10) ELSE <<>> ]),
        IF db = "none" THEN <<>> ELSE <<"list_collection_names">>)

---------------------------------------------------------------------------
(* The requests the model draws from. *)

\* Product payloads that pass the schema's validation.
Payloads == {
    [ title |-> "Chelsea Boot", description |-> Some("Suede, crepe sole."),
      price |-> 390, category |-> "footwear", image |-> None,
      in_stock |-> TRUE, sizes |-> Some(<<"41", "42">>) ],
    [ title |-> "Card Holder", description |-> None,
      price |-> 60, category |-> "accessories", image |-> None,
      in_stock |-> FALSE, sizes |-> None ] }

CartIds == {"c1", "c2"}

\* product_id of a cart item: absent, empty, not an ObjectId, or the hex
\* string of a key in either case.
ProductIds ==
    {None, Some(Text("")), Some(Text("sku-1")),
     Some(HexStr(1, FALSE)), Some(HexStr(1, TRUE)), Some(HexStr(2, FALSE))}

CartItems == [cart_id : CartIds, product_id : ProductIds]

\* limit of a listing: left out, or given.
Limits == {None, Some(1), Some(2)}

\* category of a listing: left out, empty, or given.
Categories == {None, Some(""), Some("footwear")}

\* The store handle as GET /test finds it: missing, failing, working.
DbStates == {"none", "error", "up"}

\* Whether DATABASE_URL and DATABASE_NAME are set, as GET /test finds them.
Envs == {<<TRUE, TRUE>>, <<FALSE, FALSE>>}

\* The cart items FaultSpec draws from.
FaultCartItems ==
    [cart_id : {"c1"},
     product_id : {None, Some(Text("sku-1")), Some(HexStr(1, FALSE))}]

---------------------------------------------------------------------------
(* The handlers as steps of the service. *)

Writes == stats.seeds + stats.creates + stats.adds

Init ==
    /\ product = <<>>
    /\ cartitem = <<>>
    /\ req = [op |-> "none"]
    /\ resp = [status |-> 0, body |-> <<>>]
    /\ calls = <<>>
    /\ stats = [seeds |-> 0, seedsOk |-> 0, creates |-> 0, adds |-> 0]

ReadRoot ==
    /\ req' = [op |-> "read_root"]
    /\ resp' = read_root
    /\ calls' = <<>>
    /\ UNCHANGED <<product, cartitem, stats>>

GetSchemaInfo ==
    /\ req' = [op |-> "get_schema_info"]
    /\ resp' = get_schema_info
    /\ calls' = <<>>
    /\ UNCHANGED <<product, cartitem, stats>>

TestDatabase(db, url, name) ==
    LET r == test_database(db, url, name)
    IN  /\ req' = [op |-> "test_database", db |-> db, url |-> url, name |-> name]
        /\ resp' = r.resp
        /\ calls' = r.calls
        /\ UNCHANGED <<product, cartitem, stats>>

CreateProduct(payload, ok) ==
    LET r == create_product(payload, ok)
    IN  /\ req' = [op |-> "create_product", payload |-> payload]
        /\ product' = r.coll
        /\ resp' = r.resp
        /\ calls' = r.calls
        /\ stats' = [stats EXCEPT !.creates = @ + 1]
        /\ UNCHANGED cartitem

ListProducts(limit, category, ok) ==
    LET r == list_products(limit, category, ok)
    IN  /\ req' = [op |-> "list_products", limit |-> limit, category |-> category]
        /\ product' = r.coll
        /\ resp' = r.resp
        /\ calls' = r.calls
        /\ UNCHANGED <<cartitem, stats>>

AddToCart(item, ok) ==
    LET r == add_to_cart(item, ok)
    IN  /\ req' = [op |-> "add_to_cart", item |-> item]
        /\ cartitem' = r.coll
        /\ resp' = r.resp
        /\ calls' = r.calls
        /\ stats' = [stats EXCEPT !.adds = @ + 1]
        /\ UNCHANGED product

\* Faulty variant of GetCartItems: cart_id is optional (cart_id:
\* Optional[str] = None) and the handler runs without it.
GetCartItemsOptional(cart_id, fail) ==
    LET r == IF cart_id = None
             THEN Outcome(cartitem,
                          Ok(get_documents(cartitem, [cart_id |-> "None"], None)),
                          <<"get_documents cartitem">>)
             ELSE get_cart_items(cart_id[1], fail)
    IN  /\ req' = [op |-> "get_cart_items", cart_id |-> cart_id]
        /\ cartitem' = r.coll
        /\ resp' = r.resp
        /\ calls' = r.calls
        /\ UNCHANGED <<product, stats>>

\* cart_id: str is a required query parameter: a request without it is
\* answered by the framework and the handler does not run.
GetCartItems(cart_id, fail) ==
    LET r == IF cart_id = None
             THEN Outcome(cartitem, Unprocessable, <<>>)
             ELSE get_cart_items(cart_id[1], fail)
    IN  /\ req' = [op |-> "get_cart_items", cart_id |-> cart_id]
        /\ cartitem' = r.coll
        /\ resp' = r.resp
        /\ calls' = r.calls
        /\ UNCHANGED <<product, stats>>

SeedProducts(failAt) ==
    LET r == seed_products(failAt)
    IN  /\ req' = [op |-> "seed_products", failAt |-> failAt]
        /\ product' = r.coll
        /\ resp' = r.resp
        /\ calls' = r.calls
        /\ stats' = [stats EXCEPT !.seeds = @ + 1,
                                  !.seedsOk = @ + (IF failAt = 0 THEN 1 ELSE 0)]
        /\ UNCHANGED cartitem

\* Every endpoint, over a store whose operations succeed.
Next ==
    \/ ReadRoot
    \/ GetSchemaInfo
    \/ \E env \in Envs : TestDatabase("up", env[1], env[2])
    \/ \E payload \in Payloads :
          Writes < MaxWrites /\ CreateProduct(payload, TRUE)
    \/ \E limit \in Limits, category \in Categories :
          ListProducts(limit, category, TRUE)
    \/ \E item \in CartItems :
          Writes < MaxWrites /\ AddToCart(item, TRUE)
    \/ \E cart_id \in {None} \cup {Some(c) : c \in CartIds} :
          GetCartItems(cart_id, 0)
    \/ Writes < MaxWrites /\ SeedProducts(0)

Spec == Init /\ [][Next]_vars

\* Every endpoint, over a store any operation of which may fail.
FaultNext ==
    \/ ReadRoot
    \/ GetSchemaInfo
    \/ \E db \in DbStates, env \in Envs : TestDatabase(db, env[1], env[2])
    \/ \E payload \in Payloads, ok \in BOOLEAN :
          Writes < FaultMaxWrites /\ CreateProduct(payload, ok)
    \/ \E limit \in {None, Some(1)}, category \in {None, Some("footwear")},
          ok \in BOOLEAN :
          ListProducts(limit, category, ok)
    \/ \E item \in FaultCartItems, ok \in BOOLEAN :
          Writes < FaultMaxWrites /\ AddToCart(item, ok)
    \/ \E cart_id \in {None, Some("c1")}, fail \in 0..2 :
          GetCartItems(cart_id, fail)
    \/ \E failAt \in 0..Len(samples) :
          Writes < FaultMaxWrites /\ SeedProducts(failAt)

FaultSpec == Init /\ [][FaultNext]_vars

\* The catalog endpoints over a healthy store, up to a catalog larger than
\* the default page.
CatalogNext ==
    \/ \E payload \in Payloads :
          stats.creates < CatalogMaxCreates /\ CreateProduct(payload, TRUE)
    \/ \E limit \in Limits, category \in Categories :
          ListProducts(limit, category, TRUE)
    \/ stats.seeds < CatalogMaxSeeds /\ SeedProducts(0)

CatalogSpec == Init /\ [][CatalogNext]_vars

---------------------------------------------------------------------------
(* Vocabulary of the properties. *)

IsPrefix(a, b) == Len(a) <= Len(b) /\ SubSeq(b, 1, Len(a)) = a

InBody(body, x) == \E j \in 1..Len(body) : body[j] = x

\* A stored document as the API shows it: the key as the string id, the
\* other fields as stored.
Shown(d) == [id |-> HexStr(d._id, FALSE)] @@ [f \in DOMAIN d \ {"_id"} |-> d[f]]

\* The limit a listing request is under.
LimitOf(r) == IF r.limit = None THEN DefaultLimit ELSE r.limit[1]

\* The products a listing request asks for: those of its category, all of
\* them when it names none or an empty one.
Asked(r) ==
    {i \in 1..Len(product) :
        (r.category # None /\ r.category[1] # "") => product[i].category = r.category[1]}

Min(a, b) == IF a < b THEN a ELSE b

\* The positions of cart c's items in the collection.
ItemsOf(c) == {i \in 1..Len(cartitem) : cartitem[i].cart_id = c}

\* A product_id that is present, not empty, and no ObjectId string.
Malformed(pid) == pid # None /\ pid[1] # Text("") /\ ~pid[1].hex

CartIsWellFormed(c) == \A i \in ItemsOf(c) : ~Malformed(cartitem[i].product_id)

\* The products whose identifier a product_id is.
Referenced(pid) ==
    {k \in 1..Len(product) : pid = Some(HexStr(product[k]._id, FALSE))}

\* The listing shows cart item d with `attached' as its product.
Listed(body, d, attached) ==
    \E j \in 1..Len(body) :
        /\ body[j].id = HexStr(d._id, FALSE)
        /\ body[j].cart_id = d.cart_id
        /\ body[j].product_id = d.product_id
        /\ body[j].product = attached

ReadOps == {"read_root", "get_schema_info", "test_database",
            "list_products", "get_cart_items"}

---------------------------------------------------------------------------
(* C1: a created product is in the following unfiltered listing. *)

\* C1, as claimed: after create_product succeeds with id i, a following
\* list_products with no category and the default limit returns a product
\* with id i and the submitted fields, whatever the store holds.
C1_CreatedIsListed ==
    [][(/\ req.op = "create_product" /\ resp.status = 200
        /\ req'.op = "list_products" /\ req'.category = None /\ req'.limit = None)
       => /\ resp'.status = 200
          /\ InBody(resp'.body, [id |-> resp.body.id] @@ req.payload)]_vars

\* C1, amended: the same, for a listing with no category under any limit,
\* provided the store holds no more products than the limit (50 by default)
\* once the product is created.
C1_CreatedIsListedWithinLimit ==
    [][(/\ req.op = "create_product" /\ resp.status = 200
        /\ req'.op = "list_products" /\ req'.category = None
        /\ Len(product) <= LimitOf(req'))
       => /\ resp'.status = 200
          /\ InBody(resp'.body, [id |-> resp.body.id] @@ req.payload)]_vars

\* A listing with no category and the default limit shows the newest
\* product, which a create_product request stored.
C1_Witness ==
    /\ req.op = "list_products" /\ req.category = None /\ req.limit = None
    /\ resp.status = 200
    /\ stats.creates > 0 /\ stats.seeds > 0
    /\ product[Len(product)].title = "Chelsea Boot"
    /\ InBody(resp.body, Shown(product[Len(product)]))

---------------------------------------------------------------------------
(* C2: a cart item that references a product is listed with it attached. *)

\* C2, as claimed: get_cart_items(c) returns every item of c whose
\* product_id is the identifier of an existing product with that product
\* attached.
C2_ReferencedIsAttached ==
    (req.op = "get_cart_items" /\ req.cart_id # None) =>
        \A i \in ItemsOf(req.cart_id[1]) :
            \A k \in Referenced(cartitem[i].product_id) :
                /\ resp.status = 200
                /\ Listed(resp.body, cartitem[i], Some(Shown(product[k])))

\* C2, amended: the same, provided no item of cart c carries a non-empty
\* product_id that is no ObjectId string.
C2_ReferencedIsAttachedInWellFormedCart ==
    (/\ req.op = "get_cart_items" /\ req.cart_id # None
     /\ CartIsWellFormed(req.cart_id[1])) =>
        \A i \in ItemsOf(req.cart_id[1]) :
            \A k \in Referenced(cartitem[i].product_id) :
                /\ resp.status = 200
                /\ Listed(resp.body, cartitem[i], Some(Shown(product[k])))

\* A listing of a cart two items of which reference the same product, both
\* shown with it.
C2_Witness ==
    /\ req.op = "get_cart_items" /\ req.cart_id # None /\ resp.status = 200
    /\ \E i, j \in ItemsOf(req.cart_id[1]) :
          /\ i # j
          /\ cartitem[i].product_id = cartitem[j].product_id
          /\ \E k \in Referenced(cartitem[i].product_id) :
                /\ Listed(resp.body, cartitem[i], Some(Shown(product[k])))
                /\ Listed(resp.body, cartitem[j], Some(Shown(product[k])))

---------------------------------------------------------------------------
(* C3: a cart item that references no product is listed without one. *)

\* C3, as claimed: get_cart_items(c) succeeds and returns every item of c
\* whose product_id is the identifier of no existing product with no product
\* attached, whatever product_id add_to_cart stored.
C3_DanglingIsListedBare ==
    (req.op = "get_cart_items" /\ req.cart_id # None) =>
        \A i \in ItemsOf(req.cart_id[1]) :
            Referenced(cartitem[i].product_id) = {} =>
                /\ resp.status = 200
                /\ Listed(resp.body, cartitem[i], None)

\* C3, amended: that holds of a product_id that is absent, empty or an
\* ObjectId string, in a cart no item of which carries a non-empty
\* product_id that is no ObjectId string; the listing of a cart with such an
\* item is a server error.
C3_DanglingIsListedBareInWellFormedCart ==
    (req.op = "get_cart_items" /\ req.cart_id # None) =>
        IF CartIsWellFormed(req.cart_id[1])
        THEN \A i \in ItemsOf(req.cart_id[1]) :
                Referenced(cartitem[i].product_id) = {} =>
                    /\ resp.status = 200
                    /\ Listed(resp.body, cartitem[i], None)
        ELSE resp.status = 500

\* A successful listing that shows, without a product, an item whose
\* product_id is an ObjectId string, while the catalog holds products.
C3_Witness ==
    /\ req.op = "get_cart_items" /\ req.cart_id # None /\ resp.status = 200
    /\ product # <<>>
    /\ \E i \in ItemsOf(req.cart_id[1]) :
          /\ cartitem[i].product_id # None
          /\ cartitem[i].product_id[1].hex
          /\ Referenced(cartitem[i].product_id) = {}
          /\ Listed(resp.body, cartitem[i], None)

---------------------------------------------------------------------------
(* C4: a listing by category returns that category only. *)

\* The two footwear records of the seed catalog, as a listing shows them.
SeededFootwear(body) ==
    /\ Len(body) = 2
    /\ \A j \in 1..Len(body) : body[j].category = "footwear"
    /\ {body[j].title : j \in 1..Len(body)} = {"Leather Derby", "Tech Runner"}

\* C4, as claimed: every record of a listing that was given a category has
\* that category; after one seed of an empty store, category "footwear"
\* under the default limit returns exactly the two footwear records.
C4_ListingIsOfCategory ==
    (req.op = "list_products" /\ resp.status = 200 /\ req.category # None) =>
        /\ \A j \in 1..Len(resp.body) : resp.body[j].category = req.category[1]
        /\ (/\ stats.seedsOk = 1 /\ Len(product) = Len(samples)
            /\ req.category = Some("footwear") /\ req.limit = None)
           => SeededFootwear(resp.body)

\* C4, amended: the same of a listing that was given a non-empty category
\* (an empty one is treated as none and lists every category).
C4_ListingIsOfNonEmptyCategory ==
    (/\ req.op = "list_products" /\ resp.status = 200
     /\ req.category # None /\ req.category[1] # "") =>
        /\ \A j \in 1..Len(resp.body) : resp.body[j].category = req.category[1]
        /\ (/\ stats.seedsOk = 1 /\ Len(product) = Len(samples)
            /\ req.category = Some("footwear") /\ req.limit = None)
           => SeededFootwear(resp.body)

\* The listing of category "footwear" after one seed of the empty store.
C4_Witness ==
    /\ req.op = "list_products" /\ resp.status = 200
    /\ req.category = Some("footwear") /\ req.limit = None
    /\ stats.seedsOk = 1 /\ Len(product) = Len(samples)
    /\ SeededFootwear(resp.body)

---------------------------------------------------------------------------
(* C5: a listing is capped at its limit. *)

---------------------------------------------------------------------------
(* C6: every successful seed inserts the ten samples. *)

\* C6: a successful seed call appends ten records, the samples, to whatever
\* the product collection holds and reports their ten identifiers and count
\* 10; so a second seed doubles the first, and k successful seeds of an
\* empty store that nothing else wrote to leave 10 * k records.
C6_SeedInsertsTen ==
    [][/\ (req'.op = "seed_products" /\ resp'.status = 200) =>
            /\ Len(product') = Len(product) + 10
            /\ IsPrefix(product, product')
            /\ resp'.body.count = 10
            /\ Len(resp'.body.inserted) = 10
            /\ \A i \in 1..10 :
                  /\ Shown(product'[Len(product) + i]) =
                        [id |-> resp'.body.inserted[i]] @@ samples[i]
                  /\ \A k \in 1..Len(product) :
                        HexStr(product[k]._id, FALSE) # resp'.body.inserted[i]
       /\ (stats'.seeds = stats'.seedsOk /\ stats'.creates = 0) =>
            Len(product') = 10 * stats'.seedsOk]_vars

\* The second successful seed of a store has doubled the catalog.
C6_Witness ==
    /\ req.op = "seed_products" /\ resp.status = 200
    /\ stats.seedsOk = 2 /\ stats.seeds = 2 /\ stats.creates = 0
    /\ Len(product) = 20

---------------------------------------------------------------------------
(* C7: a cart listing holds the items of that cart and no others. *)

\* The listing holds exactly the items of cart c.
IsCart(body, c) ==
    /\ Len(body) = Cardinality(ItemsOf(c))
    /\ {body[j].id : j \in 1..Len(body)} =
          {HexStr(cartitem[i]._id, FALSE) : i \in ItemsOf(c)}
    /\ \A j \in 1..Len(body) : body[j].cart_id = c

\* C7, as claimed: get_cart_items(c) returns all and only the items of
\* cart c, after any add_to_cart calls.
C7_ListingIsTheCart ==
    (req.op = "get_cart_items" /\ req.cart_id # None) =>
        /\ resp.status = 200
        /\ IsCart(resp.body, req.cart_id[1])

\* C7, amended: get_cart_items(c) returns all and only the items of cart c
\* whenever it succeeds, and it succeeds when no item of c carries a
\* non-empty product_id that is no ObjectId string.
C7_SuccessfulListingIsTheCart ==
    (req.op = "get_cart_items" /\ req.cart_id # None) =>
        /\ CartIsWellFormed(req.cart_id[1]) => resp.status = 200
        /\ resp.status = 200 => IsCart(resp.body, req.cart_id[1])

\* A listing of two items of one cart while another cart holds an item.
C7_Witness ==
    /\ req.op = "get_cart_items" /\ req.cart_id # None /\ resp.status = 200
    /\ Len(resp.body) = 2
    /\ IsCart(resp.body, req.cart_id[1])
    /\ \E i \in 1..Len(cartitem) : cartitem[i].cart_id # req.cart_id[1]

---------------------------------------------------------------------------
(* C8: a cart listing without cart_id is rejected before the store. *)

\* C8: GET /cart/items without cart_id is answered as a malformed request,
\* issues no store operation and leaves both collections as they were.
C8_MissingCartIdIsRejected ==
    [][(req'.op = "get_cart_items" /\ req'.cart_id = None) =>
          /\ resp'.status = 422
          /\ calls' = <<>>
          /\ product' = product
          /\ cartitem' = cartitem]_vars

\* Such a request, made of a store that holds cart items and products.
C8_Witness ==
    /\ req.op = "get_cart_items" /\ req.cart_id = None
    /\ resp.status = 422
    /\ cartitem # <<>> /\ product # <<>>

---------------------------------------------------------------------------
(* C9: records are never updated or deleted, and reads write nothing. *)

\* C9: every request leaves each collection's earlier records in place and
\* as they were; a read endpoint leaves both collections unchanged; a read
\* repeated right after itself returns what it returned.
C9_CollectionsOnlyGrow ==
    [][/\ IsPrefix(product, product')
       /\ IsPrefix(cartitem, cartitem')
       /\ req'.op \in ReadOps => (product' = product /\ cartitem' = cartitem)
       /\ (/\ req'.op \in ReadOps /\ req.op = req'.op /\ req' = req
           /\ resp.status = 200 /\ resp'.status = 200) => resp' = resp]_vars

\* A read of a store that holds products and cart items.
C9_Witness ==
    /\ req.op \in ReadOps
    /\ resp.status = 200
    /\ Len(product) >= Len(samples)
    /\ cartitem # <<>>

---------------------------------------------------------------------------
(* C10: a seed that fails half way keeps what it inserted. *)

\* C10: when the k-th insert of a seed fails, the call is answered with the
\* server error, which carries no identifiers, and the k-1 samples inserted
\* before stay in the product collection.
C10_FailedSeedKeepsInserted ==
    [][(req'.op = "seed_products" /\ req'.failAt >= 1) =>
          /\ resp' = [status |-> 500, body |-> "store failure"]
          /\ Len(product') = Len(product) + req'.failAt - 1
          /\ IsPrefix(product, product')
          /\ \A i \in 1..(req'.failAt - 1) :
                [f \in DOMAIN samples[i] |-> product'[Len(product) + i][f]] = samples[i]
          /\ Len(calls') = req'.failAt]_vars

\* A seed whose fourth insert failed, leaving three records in the store.
C10_Witness ==
    /\ req.op = "seed_products" /\ req.failAt = 4
    /\ resp.status = 500
    /\ Len(product) = 3

===========================================================================
